---- MODULE Spec2Model ----
(***************************************************************************)
(* Dislocation-severity scripts of continuum-intelligence.                 *)
(*                                                                         *)
(* Three programs are modelled, selected by `variant`:                     *)
(*   "runner"      scripts/run-automated-analysis.js (batch loop, engines) *)
(*   "simplified"  unnamed/part_000 lines 1-90  (Math.random prototype)    *)
(*   "realPrices"  unnamed/part_000 lines 92-220 (live-price overlay)      *)
(*                                                                         *)
(* Units: prices are integers in cents; todayReturn is in hundredths of a  *)
(* percent (toFixed(2)), drawdownFromPeak in tenths of a percent           *)
(* (toFixed(1)); weights are in 1/RandDen points.  Arithmetic is exact     *)
(* rational arithmetic, rounded as toFixed rounds (half away from zero).   *)
(*                                                                         *)
(* The runner's two engines (price-narrative-engine.js,                    *)
(* institutional-commentary-engine.js) are not part of the sources: the    *)
(* classifier follows section 4.1 of the specification, shouldUpdate is an *)
(* input, and each engine call may throw.  The summary log of lines        *)
(* 200-202 is the first statement to read analysis.inference and           *)
(* analysis.weights, so it may throw as well (fault "log").                *)
(*                                                                         *)
(* Left out, as nothing below reads them: volumes, historicalReturns and   *)
(* consecutiveDownDays of buildPriceData; zScore and volumeRatio of the    *)
(* script variants; runAt / generatedAt; console output.  The simplified   *)
(* variant's currentPrice draw cancels out of its change.                  *)
(***************************************************************************)
EXTENDS Integers, Sequences, FiniteSets, TLC

\* ------------------------------------------------------------------ bounds
\* number of tickers of a run (the scripts hard-code 12, the runner takes a list)
MaxTickers == 2

\* ------------------------------------------------------- JavaScript values
\* JS undefined for an absent numeric field (prices are never negative)
undefined == -1
\* IEEE NaN as produced by 0/0; every comparison with it is false
NaN == 999999999
\* Math.random() returns k/RandDen
RandDen == 10000

Truthy(x) == x /= undefined /\ x /= 0 /\ x /= NaN
\* a || b
Or(a, b) == IF Truthy(a) THEN a ELSE b

JsGt(a, b) == a /= NaN /\ b /= NaN /\ a > b
JsLt(a, b) == a /= NaN /\ b /= NaN /\ a < b
MathAbs(x) == IF x = NaN THEN NaN ELSE IF x < 0 THEN -x ELSE x

\* nearest integer to n/d (d > 0), ties away from zero
RoundHalfAway(n, d) ==
  IF n >= 0 THEN (2 * n + d) \div (2 * d)
            ELSE -((2 * (-n) + d) \div (2 * d))

\* (num / den * 100).toFixed(digits) read back as a number, in units of
\* 10^-digits percent (scale = 10^digits); 0/0 is NaN.  A zero denominator
\* only ever meets a zero numerator here (both come from a zero price).
PctToFixed(num, den, scale) ==
  IF den = 0 THEN NaN ELSE RoundHalfAway(num * 100 * scale, den)

\* Math.max(...s, x)
SeqMax(s, x) ==
  LET S == {s[k] : k \in DOMAIN s} \cup {x} IN CHOOSE m \in S : \A y \in S : y <= m

\* Math.min(...s, x)
SeqMin(s, x) ==
  LET S == {s[k] : k \in DOMAIN s} \cup {x} IN CHOOSE m \in S : \A y \in S : m <= y

\* s[k] with JS semantics (0-based index k): undefined outside the array
At(s, k) == IF k >= 0 /\ k < Len(s) THEN s[k + 1] ELSE undefined

\* --------------------------------------------------------------- inputs
AllTickers ==
  <<"PME", "XRO", "CSL", "WOW", "WTC", "DRO", "GYG", "MQG", "GMG", "WDS", "SIG", "FMG">>

\* the tickers a run of this model can touch
Universe == {AllTickers[k] : k \in 1..(MaxTickers + 1)}

\* livePrices.prices[ticker] when the file has no entry for the ticker
NoQuote == [p |-> undefined, pc |-> undefined]

\* entries of data/live-prices.json: p current price, pc previous close
Quotes ==
  { NoQuote,
    [p |-> 9200,  pc |-> 10000],    \* -8.00 %
    [p |-> 9199,  pc |-> 10000],    \* -8.01 %
    [p |-> 9500,  pc |-> 10000],    \* -5.00 %
    [p |-> 10504, pc |-> 10000],    \* +5.04 %
    [p |-> 9700,  pc |-> 10000],    \* -3.00 %
    [p |-> 5996,  pc |-> 5996],     \*  0 %, 40.04 % below a peak of 100.00
    [p |-> 5500,  pc |-> 0],        \* previous close zero
    [p |-> 0,     pc |-> 0] }       \* both zero

\* no STOCK_DATA.<ticker> assignment found
NoData == [price |-> undefined, priceHistory |-> <<>>, missing |-> TRUE]

\* STOCK_DATA as extracted from index.html by the runner: one ticker with a
\* price history, one without, and every other ticker absent
IndexStockData(ticker) ==
  CASE ticker = "PME" -> [price |-> 5500, priceHistory |-> <<10000, 7000, 5500, 5500>>, missing |-> FALSE]
    [] ticker = "XRO" -> [price |-> 10000, priceHistory |-> <<>>, missing |-> FALSE]
    [] OTHER -> NoData

\* Array(100).fill(280).map((p, i) => 280 - i * 1.5)
PMEHistory == [k \in 1..100 |-> 28000 - (k - 1) * 150]

HardcodedPrice(ticker) ==
  CASE ticker = "PME" -> 11822 [] ticker = "XRO" -> 7349 [] ticker = "CSL" -> 15001
    [] ticker = "WOW" -> 3194  [] ticker = "WTC" -> 4262 [] ticker = "DRO" -> 303
    [] ticker = "GYG" -> 1931  [] ticker = "MQG" -> 21617 [] ticker = "GMG" -> 3102
    [] ticker = "WDS" -> 2578  [] ticker = "SIG" -> 303  [] ticker = "FMG" -> 2121

\* --------------------------------------------------------------- state
VARIABLES variant, TICKERS, THRESHOLD, livePrices, i, results, summary, pc, exitCode

vars == <<variant, TICKERS, THRESHOLD, livePrices, i, results, summary, pc, exitCode>>

inputs == <<variant, TICKERS, THRESHOLD, livePrices>>

\* ticker lists of length at most n over S (--tickers may repeat a ticker)
TickerLists(S, n) == UNION {[1..k -> S] : k \in 0..n}

EmptyResults == [t \in {} |-> 0]


\* ------------------------------------------------ runner: buildPriceData
BuildPriceDataZeroCloseKept(ticker, stockData) ==
  LET livePrice == livePrices[ticker]
      priceHistory == stockData.priceHistory
      currentPrice ==
        Or(livePrice.p, Or(stockData.price, Or(At(priceHistory, Len(priceHistory) - 1), 10000)))
      previousPrice ==
        IF livePrice.pc /= undefined THEN livePrice.pc
        ELSE Or(At(priceHistory, Len(priceHistory) - 2), currentPrice)
  IN [currentPrice |-> currentPrice,
      previousPrice |-> previousPrice,
      priceAtReview |-> Or(stockData.price, currentPrice),
      peakPrice |-> SeqMax(priceHistory, currentPrice),
      low52Week |-> SeqMin(priceHistory, currentPrice),
      high52Week |-> SeqMax(priceHistory, currentPrice)]

BuildPriceData(ticker, stockData) ==
  LET livePrice == livePrices[ticker]
      priceHistory == stockData.priceHistory
      currentPrice ==
        Or(livePrice.p, Or(stockData.price, Or(At(priceHistory, Len(priceHistory) - 1), 10000)))
      previousPrice ==
        Or(livePrice.pc, Or(At(priceHistory, Len(priceHistory) - 2), currentPrice))
      peakPrice == SeqMax(priceHistory, currentPrice)
  IN [currentPrice |-> currentPrice,
      previousPrice |-> previousPrice,
      priceAtReview |-> Or(stockData.price, currentPrice),
      peakPrice |-> peakPrice,
      low52Week |-> SeqMin(priceHistory, currentPrice),
      high52Week |-> peakPrice]

\* ------------------------------------- part_000: severity classification
\* real-prices variant: CRITICAL test with && in place of ||
SeverityBothNeeded(change, drawdown) ==
  IF JsGt(MathAbs(change), 800) /\ JsLt(drawdown, -400) THEN "CRITICAL"
  ELSE IF JsGt(MathAbs(change), 500) \/ JsLt(drawdown, -250) THEN "HIGH"
  ELSE "NORMAL"

\* real-prices variant, on the parsed toFixed values
Severity(change, drawdown) ==
  IF JsGt(MathAbs(change), 800) \/ JsLt(drawdown, -400) THEN "CRITICAL"
  ELSE IF JsGt(MathAbs(change), 500) \/ JsLt(drawdown, -250) THEN "HIGH"
  ELSE "NORMAL"

\* simplified variant: return only
SimpleSeverity(change) ==
  IF JsGt(MathAbs(change), 800) THEN "CRITICAL"
  ELSE IF JsGt(MathAbs(change), 500) THEN "HIGH"
  ELSE "NORMAL"

\* the summary of the script variants after one ticker
ScriptCount(s, severity) ==
  CASE severity = "CRITICAL" -> [s EXCEPT !.criticalDislocations = @ + 1]
    [] severity = "HIGH" -> [s EXCEPT !.highDislocations = @ + 1]
    [] OTHER -> [s EXCEPT !.normal = @ + 1]

\* ------------------------------------------ runner: PriceNarrativeEngine
\* DislocationClassifier of the engine: severity
EngineSeverity(todayReturn, drawdown) ==
  IF Severity(todayReturn, drawdown) /= "NORMAL" THEN Severity(todayReturn, drawdown)
  ELSE IF JsGt(MathAbs(todayReturn), 200) THEN "MODERATE"
  ELSE "NORMAL"

\* DislocationClassifier of the engine: pattern
EnginePattern(severity, todayReturn) ==
  IF severity = "CRITICAL" THEN "DISTRIBUTION"
  ELSE IF severity = "HIGH" /\ JsLt(todayReturn, 0) THEN "GAP_DOWN"
  ELSE "NORMAL"

\* PriceNarrativeEngine.analyze(ticker, stockData, priceData); shouldUpdate is
\* the engine's own decision, an input here
Analyze(priceData, shouldUpdate) ==
  LET todayReturn ==
        PctToFixed(priceData.currentPrice - priceData.previousPrice, priceData.previousPrice, 100)
      drawdown ==
        PctToFixed(priceData.currentPrice - priceData.peakPrice, priceData.peakPrice, 10)
      severity == EngineSeverity(todayReturn, drawdown)
  IN [severity |-> severity,
      todayReturn |-> todayReturn,
      drawdownFromPeak |-> drawdown,
      pattern |-> EnginePattern(severity, todayReturn),
      shouldUpdate |-> shouldUpdate,
      institutionalCommentary |-> FALSE]

\* ------------------------------------------------ runner: threshold gate
SeverityLevel(severity) ==
  CASE severity = "NORMAL" -> 0 [] severity = "MODERATE" -> 1
    [] severity = "HIGH" -> 2 [] severity = "CRITICAL" -> 3
    [] OTHER -> undefined

\* args.threshold || 'MODERATE'
ThresholdArg(arg) == IF arg = "absent" THEN "MODERATE" ELSE arg

\* SEVERITY_LEVELS[THRESHOLD] || 1
thresholdLevel == Or(SeverityLevel(THRESHOLD), 1)

\* the condition under which generateReport is called
WantsCommentary(analysis) ==
  analysis.shouldUpdate \/ SeverityLevel(analysis.severity) >= thresholdLevel

\* ------------------------------------------------ runner: summary update
UpdateSummaryModerateAsNormal(s, severity) ==
  CASE severity = "CRITICAL" -> [s EXCEPT !.criticalDislocations = @ + 1]
    [] severity = "HIGH" -> [s EXCEPT !.highDislocations = @ + 1]
    [] OTHER -> [s EXCEPT !.normal = @ + 1]

UpdateSummary(s, severity) ==
  CASE severity = "CRITICAL" -> [s EXCEPT !.criticalDislocations = @ + 1]
    [] severity = "HIGH" -> [s EXCEPT !.highDislocations = @ + 1]
    [] severity = "MODERATE" -> [s EXCEPT !.moderateDislocations = @ + 1]
    [] OTHER -> [s EXCEPT !.normal = @ + 1]

\* summary.errors.push({ ticker, error })
PushErrorAndCount(s, ticker, error) ==
  [s EXCEPT !.errors = Append(@, [ticker |-> ticker, error |-> error]), !.normal = @ + 1]

PushError(s, ticker, error) ==
  [s EXCEPT !.errors = Append(@, [ticker |-> ticker, error |-> error])]

\* exit status of the runner
ExitCodeErrorsToo(s) ==
  IF s.criticalDislocations > 0 \/ Len(s.errors) > 0 THEN 1 ELSE 0

ExitCode(s) == IF s.criticalDislocations > 0 THEN 1 ELSE 0

\* exit status of the script variants
ScriptExitCode(s) == IF s.criticalDislocations > 0 THEN 1 ELSE 0

\* where an iteration of the runner can throw inside its try block
Faults == {"none", "analyze", "commentary", "log"}

\* e.message of the exception thrown at a fault point
FaultMessage(fault) ==
  CASE fault = "analyze" -> "analyze threw"
    [] fault = "commentary" -> "generateReport threw"
    [] fault = "log" -> "summary log threw"

Put(f, k, v) == [x \in DOMAIN f \cup {k} |-> IF x = k THEN v ELSE f[x]]

\* ------------------------------------------------------------- Init
RunnerSummary(n) ==
  [tickersAnalyzed |-> n, criticalDislocations |-> 0, highDislocations |-> 0,
   moderateDislocations |-> 0, normal |-> 0, errors |-> <<>>]

ScriptSummary ==
  [tickersAnalyzed |-> 12, criticalDislocations |-> 0, highDislocations |-> 0, normal |-> 0]

\* the hard-coded ticker list of the script variants, cut at MaxTickers
ScriptTickers == SubSeq(AllTickers, 1, MaxTickers)

Range(s) == {s[k] : k \in DOMAIN s}

Init ==
  /\ variant \in {"runner", "simplified", "realPrices"}
  /\ TICKERS \in (IF variant = "runner" THEN TickerLists(Universe, MaxTickers) ELSE {ScriptTickers})
  /\ THRESHOLD \in (IF variant = "runner"
                      THEN {ThresholdArg(a) : a \in {"absent", "NORMAL", "MODERATE", "HIGH", "CRITICAL"}}
                      ELSE {"MODERATE"})
  /\ livePrices \in [Universe -> Quotes]
  /\ \A t \in Universe :
       \/ livePrices[t] = NoQuote
       \/ /\ variant /= "simplified"
          /\ t \in Range(TICKERS)
          /\ variant = "runner" => ~IndexStockData(t).missing
  /\ i = 1
  /\ results = EmptyResults
  /\ summary = (IF variant = "runner" THEN RunnerSummary(Len(TICKERS)) ELSE ScriptSummary)
  /\ pc = "loop"
  /\ exitCode = undefined

\* ------------------------------------------------------------- runner
\* one iteration of the main loop for a ticker without STOCK_DATA
RunnerNoData ==
  /\ variant = "runner" /\ pc = "loop" /\ i <= Len(TICKERS)
  /\ IndexStockData(TICKERS[i]).missing
  /\ summary' = PushError(summary, TICKERS[i], "No data found")
  /\ i' = i + 1
  /\ UNCHANGED <<inputs, results, pc, exitCode>>

\* one iteration of the main loop for a ticker with STOCK_DATA
RunnerAnalyze ==
  /\ variant = "runner" /\ pc = "loop" /\ i <= Len(TICKERS)
  /\ ~IndexStockData(TICKERS[i]).missing
  /\ \E fault \in Faults, shouldUpdate \in BOOLEAN :
       LET ticker == TICKERS[i]
           priceData == BuildPriceData(ticker, IndexStockData(ticker))
           analysis == Analyze(priceData, shouldUpdate)
           reported == [analysis EXCEPT !.institutionalCommentary = WantsCommentary(analysis)]
       IN CASE fault = "analyze" ->
                 /\ summary' = PushError(summary, ticker, FaultMessage(fault))
                 /\ UNCHANGED results
            [] fault = "commentary" ->
                 /\ WantsCommentary(analysis)
                 /\ summary' = PushError(summary, ticker, FaultMessage(fault))
                 /\ UNCHANGED results
            [] fault = "log" ->
                 /\ results' = Put(results, ticker, reported)
                 /\ summary' = PushError(UpdateSummary(summary, analysis.severity),
                                         ticker, FaultMessage(fault))
            [] OTHER ->
                 /\ results' = Put(results, ticker, reported)
                 /\ summary' = UpdateSummary(summary, analysis.severity)
  /\ i' = i + 1
  /\ UNCHANGED <<inputs, pc, exitCode>>

\* output written, process ends
RunnerExit ==
  /\ variant = "runner" /\ pc = "loop" /\ i > Len(TICKERS)
  /\ pc' = "exited"
  /\ exitCode' = ExitCode(summary)
  /\ UNCHANGED <<inputs, i, results, summary>>

\* ------------------------------------------------ simplified variant
\* values of Math.random(), as multiples of 1/RandDen, for the previous price
PriceDraws == {0, 238, 2000}
\* values of Math.random() for the short-term weights
WeightDraws == {0, 9000}

\* ((currentPrice - previousPrice) / previousPrice * 100).toFixed(2) with
\* previousPrice = currentPrice * (1 + (r - 0.5) * 0.1), r = k / RandDen: the
\* positive currentPrice cancels, leaving (RandDen - 2k) / (19 RandDen + 2k)
SimulatedChange(k) == PctToFixed(RandDen - 2 * k, 19 * RandDen + 2 * k, 100)

\* pattern of the simplified variant
SimplePattern(change) == IF JsGt(MathAbs(change), 500) THEN "GAP_DOWN" ELSE "NORMAL"

\* weights of the simplified variant, kT the draw of tag T
SimpleWeights(severity, k1, k2, k3, k4) ==
  [T1 |-> [longTerm |-> 50 * RandDen, shortTerm |-> 45 * RandDen + 20 * k1,
           blended |-> 50 * RandDen, confidence |-> "HIGH"],
   T2 |-> [longTerm |-> 30 * RandDen, shortTerm |-> 30 * RandDen + 30 * k2,
           blended |-> 40 * RandDen, confidence |-> "MEDIUM"],
   T3 |-> [longTerm |-> 20 * RandDen, shortTerm |-> 20 * RandDen + 40 * k3,
           blended |-> 35 * RandDen,
           confidence |-> IF severity = "CRITICAL" THEN "LOW" ELSE "MEDIUM"],
   T4 |-> [longTerm |-> 40 * RandDen, shortTerm |-> 30 * RandDen + 20 * k4,
           blended |-> 38 * RandDen, confidence |-> "MEDIUM"]]

\* one iteration of the simplified variant's loop
SimplifiedIteration ==
  /\ variant = "simplified" /\ pc = "loop" /\ i <= Len(TICKERS)
  /\ \E k \in PriceDraws, k1, k2, k3, k4 \in WeightDraws :
       LET change == SimulatedChange(k)
           severity == SimpleSeverity(change)
       IN /\ summary' = ScriptCount(summary, severity)
          /\ results' = Put(results, TICKERS[i],
               [severity |-> severity,
                todayReturn |-> change,
                pattern |-> SimplePattern(change),
                weights |-> SimpleWeights(severity, k1, k2, k3, k4),
                primaryHypothesis |-> IF severity = "CRITICAL" THEN "T2" ELSE "T1"])
  /\ i' = i + 1
  /\ UNCHANGED <<inputs, pc, exitCode>>

\* ------------------------------------------------ real-prices variant
\* STOCK_DATA[ticker] after the live-price overlay
RealStockData(ticker) ==
  LET live == livePrices[ticker]
      history == IF ticker = "PME" THEN PMEHistory ELSE <<>>
  IN IF live /= NoQuote
       THEN [price |-> live.p, previousPrice |-> live.pc, priceHistory |-> history]
       ELSE [price |-> HardcodedPrice(ticker), previousPrice |-> undefined,
             priceHistory |-> history]

\* change and drawdown of one ticker; tenths of a cent keep currentPrice * 1.1
\* and currentPrice * 2.5 exact
RealMetrics(data) ==
  LET currentPrice10 == 10 * data.price
      previousPrice10 ==
        IF Truthy(data.previousPrice) THEN 10 * data.previousPrice ELSE 11 * data.price
      peakPrice10 == SeqMax([k \in DOMAIN data.priceHistory |-> 10 * data.priceHistory[k]],
                            25 * data.price)
  IN [currentPrice |-> data.price,
      peakPrice10 |-> peakPrice10,
      change |-> PctToFixed(currentPrice10 - previousPrice10, previousPrice10, 100),
      drawdown |-> PctToFixed(currentPrice10 - peakPrice10, peakPrice10, 10)]

\* weights of the real-prices variant
RealWeights(severity) ==
  LET c == severity = "CRITICAL" IN
  [T1 |-> [longTerm |-> 60 * RandDen, shortTerm |-> (IF c THEN 40 ELSE 55) * RandDen,
           blended |-> (IF c THEN 52 ELSE 58) * RandDen, confidence |-> "MEDIUM"],
   T2 |-> [longTerm |-> 35 * RandDen, shortTerm |-> (IF c THEN 75 ELSE 40) * RandDen,
           blended |-> (IF c THEN 51 ELSE 37) * RandDen,
           confidence |-> IF c THEN "HIGH" ELSE "MEDIUM"],
   T3 |-> [longTerm |-> 20 * RandDen, shortTerm |-> (IF c THEN 65 ELSE 25) * RandDen,
           blended |-> (IF c THEN 38 ELSE 22) * RandDen,
           confidence |-> IF c THEN "HIGH" ELSE "MEDIUM"],
   T4 |-> [longTerm |-> 50 * RandDen, shortTerm |-> (IF c THEN 15 ELSE 45) * RandDen,
           blended |-> (IF c THEN 36 ELSE 48) * RandDen,
           confidence |-> IF c THEN "LOW" ELSE "MEDIUM"]]

\* pattern of the real-prices variant
RealPattern(severity) == IF severity = "CRITICAL" THEN "DISTRIBUTION" ELSE "NORMAL"

\* one iteration of the real-prices variant's loop
RealPricesIteration ==
  /\ variant = "realPrices" /\ pc = "loop" /\ i <= Len(TICKERS)
  /\ LET m == RealMetrics(RealStockData(TICKERS[i]))
         severity == Severity(m.change, m.drawdown)
     IN /\ summary' = ScriptCount(summary, severity)
        /\ results' = Put(results, TICKERS[i],
             [severity |-> severity,
              currentPrice |-> m.currentPrice,
              todayReturn |-> m.change,
              drawdownFromPeak |-> m.drawdown,
              pattern |-> RealPattern(severity),
              weights |-> RealWeights(severity),
              primaryHypothesis |-> IF severity = "CRITICAL" THEN "T2" ELSE "T1"])
  /\ i' = i + 1
  /\ UNCHANGED <<inputs, pc, exitCode>>

\* results saved, process.exit of either script variant
ScriptExit ==
  /\ variant /= "runner" /\ pc = "loop" /\ i > Len(TICKERS)
  /\ pc' = "exited"
  /\ exitCode' = ScriptExitCode(summary)
  /\ UNCHANGED <<inputs, i, results, summary>>

Next ==
  \/ RunnerNoData \/ RunnerAnalyze \/ RunnerExit
  \/ SimplifiedIteration \/ RealPricesIteration \/ ScriptExit

Spec == Init /\ [][Next]_vars

\* ================================================================ claims
\* tickers whose loop iteration is over
Processed == {TICKERS[k] : k \in 1..(i - 1)}

\* positions of summary.errors that name ticker t (runner)
ErrorsFor(t) == {k \in DOMAIN summary.errors : summary.errors[k].ticker = t}

\* priceData the runner built for ticker t
PriceDataOf(t) == BuildPriceData(t, IndexStockData(t))

\* drawdown metric of a result; the simplified variant has none
DrawdownOf(r) == IF variant = "simplified" THEN NaN ELSE r.drawdownFromPeak

Tags == {"T1", "T2", "T3", "T4"}

Min2(a, b) == IF a < b THEN a ELSE b
Max2(a, b) == IF a > b THEN a ELSE b

\* C1: every result's severity is CRITICAL exactly when |todayReturn| > 8.00
\* or drawdown < -40.0 on the rounded values, and otherwise HIGH exactly when
\* |todayReturn| > 5.00 or drawdown < -25.0 (strict comparisons, first match
\* wins; the simplified variant has no drawdown to test).
C1_SeverityFirstMatch ==
  \A t \in DOMAIN results :
    LET r == results[t]
        crit == JsGt(MathAbs(r.todayReturn), 800) \/ JsLt(DrawdownOf(r), -400)
        high == JsGt(MathAbs(r.todayReturn), 500) \/ JsLt(DrawdownOf(r), -250)
    IN /\ (r.severity = "CRITICAL") <=> crit
       /\ ~crit => ((r.severity = "HIGH") <=> high)

\* C1 witness: the real-prices variant classified a ticker CRITICAL on its
\* drawdown alone, its return being 0.
C1_DrawdownOnlyCritical ==
  /\ variant = "realPrices"
  /\ \E t \in DOMAIN results :
       /\ results[t].todayReturn = 0
       /\ results[t].drawdownFromPeak < -400
       /\ results[t].severity = "CRITICAL"

\* tickers whose result is MODERATE
ModerateResults == {t \in DOMAIN results : results[t].severity = "MODERATE"}

\* C2 as stated: a result that is neither CRITICAL nor HIGH is MODERATE when
\* |todayReturn| > 2.00 and NORMAL otherwise, and the runner's
\* moderateDislocations counts every MODERATE result.
C2_ModerateAboveTwo ==
  /\ \A t \in DOMAIN results :
       LET r == results[t] IN
       r.severity \notin {"CRITICAL", "HIGH"} =>
         r.severity = (IF JsGt(MathAbs(r.todayReturn), 200) THEN "MODERATE" ELSE "NORMAL")
  /\ variant = "runner" => Cardinality(ModerateResults) <= summary.moderateDislocations

\* C2 amended: the two script variants know no MODERATE level: a result that
\* is neither CRITICAL nor HIGH is NORMAL whatever its return; in the runner a
\* result that is neither CRITICAL nor HIGH is MODERATE when |todayReturn| >
\* 2.00 and NORMAL otherwise, and moderateDislocations counts every MODERATE
\* result, once for each processed list position of its ticker at most.
C2_ModerateOnlyInRunner ==
  /\ variant /= "runner" =>
       \A t \in DOMAIN results :
         /\ results[t].severity \in {"NORMAL", "HIGH", "CRITICAL"}
         /\ results[t].severity \notin {"CRITICAL", "HIGH"} => results[t].severity = "NORMAL"
  /\ variant = "runner" =>
       /\ \A t \in DOMAIN results :
            LET r == results[t] IN
            r.severity \notin {"CRITICAL", "HIGH"} =>
              r.severity = (IF JsGt(MathAbs(r.todayReturn), 200) THEN "MODERATE" ELSE "NORMAL")
       /\ Cardinality(ModerateResults) <= summary.moderateDislocations
       /\ summary.moderateDislocations <=
            Cardinality({k \in 1..(i - 1) : TICKERS[k] \in ModerateResults})

\* C2 witness: the runner has counted a MODERATE result.
C2_ModerateCounted ==
  /\ variant = "runner"
  /\ summary.moderateDislocations > 0
  /\ \E t \in DOMAIN results : results[t].severity = "MODERATE"

\* C3 as stated: a result of a ticker with an empty priceHistory has
\* peakPrice = currentPrice and drawdown 0, and when its previousPrice equals
\* its currentPrice its return is 0 and its severity NORMAL.
C3_EmptyHistoryNoDrawdown ==
  /\ variant = "runner" =>
       \A t \in DOMAIN results :
         IndexStockData(t).priceHistory = <<>> =>
           /\ PriceDataOf(t).peakPrice = PriceDataOf(t).currentPrice
           /\ results[t].drawdownFromPeak = 0
           /\ PriceDataOf(t).previousPrice = PriceDataOf(t).currentPrice =>
                results[t].todayReturn = 0 /\ results[t].severity = "NORMAL"
  /\ variant = "realPrices" =>
       \A t \in DOMAIN results :
         LET data == RealStockData(t) IN
         data.priceHistory = <<>> =>
           /\ RealMetrics(data).peakPrice10 = 10 * data.price
           /\ results[t].drawdownFromPeak = 0
           /\ data.previousPrice = data.price =>
                results[t].todayReturn = 0 /\ results[t].severity = "NORMAL"

\* C4 as stated: a result's pattern is DISTRIBUTION when its severity is
\* CRITICAL, GAP_DOWN when it is HIGH with a negative return, NORMAL otherwise.
C4_PatternBySeverity ==
  \A t \in DOMAIN results :
    LET r == results[t] IN
    r.pattern = (IF r.severity = "CRITICAL" THEN "DISTRIBUTION"
                 ELSE IF r.severity = "HIGH" /\ JsLt(r.todayReturn, 0) THEN "GAP_DOWN"
                 ELSE "NORMAL")

\* C5 as stated: every weight record produced has
\* min(longTerm, shortTerm) <= blended <= max(longTerm, shortTerm).
C5_BlendedBetween ==
  variant /= "runner" =>
    \A t \in DOMAIN results : \A tag \in Tags :
      LET w == results[t].weights[tag] IN
      /\ Min2(w.longTerm, w.shortTerm) <= w.blended
      /\ w.blended <= Max2(w.longTerm, w.shortTerm)

\* the counters and results of the runner
Counted ==
  <<summary.criticalDislocations, summary.highDislocations,
    summary.moderateDislocations, summary.normal, results>>

ZeroPreviousClose(t) == livePrices[t] /= NoQuote /\ livePrices[t].pc = 0

\* C7 as stated: a processed ticker whose supplied previous price is zero has
\* no result (and, in the runner, an error entry).
C7_ZeroPreviousSkipped ==
  \A t \in Processed :
    (ZeroPreviousClose(t) /\ (variant = "runner" => ~IndexStockData(t).missing)) =>
      /\ t \notin DOMAIN results
      /\ variant = "runner" => ErrorsFor(t) /= {}

\* C7 amended: a zero previous close is treated as missing.  In the runner
\* previousPrice falls back to the second-to-last history price, else to
\* currentPrice, so it is never zero; the ticker is classified on that price
\* and gets an error entry only if an engine call throws.  In the real-prices
\* variant previousPrice falls back to currentPrice * 1.1 and the ticker is
\* always classified.
C7_ZeroPreviousFallsBack ==
  \A t \in Processed :
    ZeroPreviousClose(t) =>
      /\ variant = "runner" =>
           LET pd == PriceDataOf(t)
               h == IndexStockData(t).priceHistory
               fallback == Or(At(h, Len(h) - 2), pd.currentPrice)
           IN /\ pd.previousPrice = fallback /\ pd.previousPrice /= 0
              /\ ErrorsFor(t) = {} => t \in DOMAIN results
              /\ \A k \in ErrorsFor(t) :
                   summary.errors[k].error \in {FaultMessage(f) : f \in Faults \ {"none"}}
              /\ t \in DOMAIN results =>
                   results[t].todayReturn =
                     PctToFixed(pd.currentPrice - fallback, fallback, 100)
      /\ variant = "realPrices" =>
           /\ t \in DOMAIN results
           /\ results[t].todayReturn =
                PctToFixed(10 * livePrices[t].p - 11 * livePrices[t].p, 11 * livePrices[t].p, 100)

\* C7 witness: the runner classified a ticker quoted with a zero previous
\* close and recorded no error.
C7_ZeroPreviousClassified ==
  /\ variant = "runner"
  /\ summary.errors = <<>>
  /\ \E t \in DOMAIN results : ZeroPreviousClose(t)

\* C8: once the process has exited, its exit code is 1 exactly when some
\* result is CRITICAL, and 0 otherwise, whatever errors were recorded.
C8_ExitCodeIffCritical ==
  pc = "exited" =>
    /\ exitCode \in {0, 1}
    /\ (exitCode = 1) <=> (\E t \in DOMAIN results : results[t].severity = "CRITICAL")

\* C8 witness: the runner exited with code 0 although errors were recorded.
C8_ErrorsButExitZero ==
  /\ variant = "runner" /\ pc = "exited"
  /\ Len(summary.errors) > 0
  /\ DOMAIN results /= {}
  /\ exitCode = 0

\* C9 as stated: when the loop is over the four severity counters and the
\* number of errors add up to tickersAnalyzed, and no ticker is both in
\* results and in errors.
C9_EveryTickerOnce ==
  (variant = "runner" /\ pc = "exited") =>
    /\ summary.criticalDislocations + summary.highDislocations
         + summary.moderateDislocations + summary.normal + Len(summary.errors)
       = summary.tickersAnalyzed
    /\ \A t \in DOMAIN results : ErrorsFor(t) = {}

\* C10 as stated: a result carries institutionalCommentary exactly when
\* shouldUpdate is true or its severity ranks at least as high as THRESHOLD
\* (NORMAL 0 < MODERATE 1 < HIGH 2 < CRITICAL 3; absent means MODERATE).
C10_CommentaryByThreshold ==
  variant = "runner" =>
    \A t \in DOMAIN results :
      results[t].institutionalCommentary <=>
        ( \/ results[t].shouldUpdate
          \/ SeverityLevel(results[t].severity) >= SeverityLevel(THRESHOLD) )

====
